---- MODULE Spec2Model ----
(***************************************************************************)
(* A model of the django-rnx example application:                          *)
(*   example_app/views.py      ContactForm and the four views              *)
(*   example_project/urls.py   urlpatterns                                 *)
(*                                                                         *)
(* Strings that the code inspects character by character (form input and   *)
(* request paths) are sequences of one-character strings; literals that    *)
(* the code only passes on (template names, the static contexts) are TLA+  *)
(* strings.  A Python dict is a function whose DOMAIN is its set of keys.  *)
(* An optional value (None or a value) is a set with at most one element.  *)
(***************************************************************************)
EXTENDS Integers, Sequences, FiniteSets, TLC

(***************************************************************************)
(* Bounds of the model.                                                    *)
(***************************************************************************)
\* most whitespace characters put on either side of a submitted value
MaxPad == 1
\* submitted names have 0..MaxShort characters, or a length near max_length
MaxShort == 1
\* submitted names exceed max_length by at most MaxOver characters
MaxOver == 1
\* requests in flight at once in the concurrent specification
NumWorkers == 2

(***************************************************************************)
(* Characters and strings.                                                 *)
(***************************************************************************)
LowerOf ==
    [A |-> "a", B |-> "b", C |-> "c", D |-> "d", E |-> "e", F |-> "f",
     G |-> "g", H |-> "h", I |-> "i", J |-> "j", K |-> "k", L |-> "l",
     M |-> "m", N |-> "n", O |-> "o", P |-> "p", Q |-> "q", R |-> "r",
     S |-> "s", T |-> "t", U |-> "u", V |-> "v", W |-> "w", X |-> "x",
     Y |-> "y", Z |-> "z"]

Uppercase == DOMAIN LowerOf

Lowercase == {LowerOf[c] : c \in Uppercase}

Digits == {"0", "1", "2", "3", "4", "5", "6", "7", "8", "9"}

\* the characters str.strip() removes
Whitespace == {" ", "\t", "\n", "\r"}

\* the NUL character, U+0000
NUL == "NUL"

None == {}

Some(v) == {v}

The(opt) == CHOOSE v \in opt : TRUE

EmptyDict == [k \in {} |-> <<>>]

Rep(c, n) == [i \in 1..n |-> c]

\* str.lower()
lower(s) == [i \in 1..Len(s) |-> IF s[i] \in Uppercase THEN LowerOf[s[i]] ELSE s[i]]

RECURSIVE lstrip(_)
lstrip(s) ==
    IF s # <<>> /\ Head(s) \in Whitespace THEN lstrip(Tail(s)) ELSE s

RECURSIVE rstrip(_)
rstrip(s) ==
    IF s # <<>> /\ s[Len(s)] \in Whitespace
    THEN rstrip(SubSeq(s, 1, Len(s) - 1))
    ELSE s

\* str.strip()
strip(s) == rstrip(lstrip(s))

\* s.split(sep) for a one-character separator
RECURSIVE split(_, _)
split(s, sep) ==
    IF \E i \in 1..Len(s) : s[i] = sep
    THEN LET i == CHOOSE j \in 1..Len(s) :
                      s[j] = sep /\ \A k \in 1..(j - 1) : s[k] # sep
         IN  <<SubSeq(s, 1, i - 1)>> \o split(SubSeq(s, i + 1, Len(s)), sep)
    ELSE <<s>>

\* s.rsplit(sep, 1), for s that holds sep
rsplit1(s, sep) ==
    LET i == CHOOSE j \in 1..Len(s) :
                 s[j] = sep /\ \A k \in (j + 1)..Len(s) : s[k] # sep
    IN  <<SubSeq(s, 1, i - 1), SubSeq(s, i + 1, Len(s))>>

(***************************************************************************)
(* ContactForm: the declared fields and what each does to a submitted      *)
(* value (django.forms field cleaning: widget, to_python, validate,        *)
(* run_validators).                                                        *)
(***************************************************************************)
max_length == 100

ContactForm_base_fields ==
    [name      |-> [type |-> "CharField", max_length |-> Some(max_length),
                    required |-> TRUE, widget |-> "TextInput"],
     email     |-> [type |-> "EmailField", max_length |-> None,
                    required |-> TRUE, widget |-> "EmailInput"],
     message   |-> [type |-> "CharField", max_length |-> None,
                    required |-> TRUE, widget |-> "Textarea"],
     subscribe |-> [type |-> "BooleanField", max_length |-> None,
                    required |-> FALSE, widget |-> "CheckboxInput"]]

\* QueryDict.get(key): None when the key was not submitted
dict_get(data, key) == IF key \in DOMAIN data THEN Some(data[key]) ELSE None

\* CheckboxInput.value_from_datadict: a missing key is False, "true" and
\* "false" (any case) are themselves, every other string is its truth value
checkbox_value(data, key) ==
    IF key \notin DOMAIN data THEN FALSE
    ELSE LET v == lower(data[key]) IN
         IF v = <<"t", "r", "u", "e">> THEN TRUE
         ELSE IF v = <<"f", "a", "l", "s", "e">> THEN FALSE
         ELSE data[key] # <<>>

\* CharField.to_python: None becomes '', a string is stripped
char_to_python(raw) == IF raw = None THEN <<>> ELSE strip(The(raw))

\* EmailValidator.user_regex, its dot-atom form: non-empty atoms joined by
\* "."; of the punctuation an atom may hold the model keeps "-", "_", "+"
AtomChars == Lowercase \cup Uppercase \cup Digits \cup {"-", "_", "+"}

user_ok(user_part) ==
    LET atoms == split(user_part, ".") IN
    \A i \in 1..Len(atoms) :
        /\ atoms[i] # <<>>
        /\ \A j \in 1..Len(atoms[i]) : atoms[i][j] \in AtomChars

LabelChars == Lowercase \cup Uppercase \cup Digits \cup {"-"}

\* EmailValidator.domain_regex: one or more labels, each followed by ".",
\* then a top-level label of 2 to 63 characters that does not end in "-"
domain_ok(domain_part) ==
    LET labels == split(domain_part, ".")
        n == Len(labels)
    IN  /\ n >= 2
        /\ \A i \in 1..(n - 1) :
              /\ Len(labels[i]) \in 1..63
              /\ \A j \in 1..Len(labels[i]) : labels[i][j] \in LabelChars
              /\ labels[i][1] # "-"
              /\ labels[i][Len(labels[i])] # "-"
        /\ Len(labels[n]) \in 2..63
        /\ \A j \in 1..Len(labels[n]) : labels[n][j] \in LabelChars
        /\ labels[n][Len(labels[n])] # "-"

\* django.core.validators.validate_email: the value holds "@" and splits at
\* its last "@" into a user part and a domain part that both match.  The
\* quoted-string user part, the bracketed IP-literal domain and the
\* allow-listed domain "localhost" need characters or words that no
\* submitted value below holds.
validate_email(value) ==
    /\ value # <<>>
    /\ \E i \in 1..Len(value) : value[i] = "@"
    /\ LET parts == rsplit1(value, "@") IN
       user_ok(parts[1]) /\ domain_ok(parts[2])

\* widget.value_from_datadict followed by Field.to_python
field_value(field, data, key) ==
    IF field.type = "BooleanField"
    THEN checkbox_value(data, key)
    ELSE char_to_python(dict_get(data, key))

\* the length check off by one: a value of exactly max_length is refused
field_errors_off_by_one(field, value) ==
    IF field.type = "BooleanField"
    THEN IF ~value /\ field.required THEN {"required"} ELSE {}
    ELSE IF value = <<>>
    THEN IF field.required THEN {"required"} ELSE {}
    ELSE {c \in {"max_length"} :
              field.max_length # None /\ Len(value) >= The(field.max_length)}
         \cup {c \in {"null_characters_not_allowed"} :
              \E i \in 1..Len(value) : value[i] = NUL}
         \cup {c \in {"invalid"} :
              field.type = "EmailField" /\ ~validate_email(value)}

\* Field.validate followed by Field.run_validators: the codes of the
\* ValidationErrors raised for a converted value
field_errors(field, value) ==
    IF field.type = "BooleanField"
    THEN IF ~value /\ field.required THEN {"required"} ELSE {}
    ELSE IF value = <<>>
    THEN IF field.required THEN {"required"} ELSE {}
    ELSE {c \in {"max_length"} :
              field.max_length # None /\ Len(value) > The(field.max_length)}
         \cup {c \in {"null_characters_not_allowed"} :
              \E i \in 1..Len(value) : value[i] = NUL}
         \cup {c \in {"invalid"} :
              field.type = "EmailField" /\ ~validate_email(value)}

\* ContactForm(data) and ContactForm(): the fields are a copy of the class's
\* base_fields; no data means an unbound form with an empty data mapping
NewContactForm(data, base_fields) ==
    [is_bound     |-> data # None,
     data         |-> IF data = None THEN EmptyDict ELSE The(data),
     fields       |-> base_fields,
     _errors      |-> None,
     cleaned_data |-> None]

\* BaseForm.full_clean: an unbound form gets an empty error dict and no
\* cleaned_data; a bound form gets the errors of every failing field and
\* the cleaned values of the others
full_clean(form) ==
    IF ~form.is_bound
    THEN [form EXCEPT !._errors = Some(EmptyDict)]
    ELSE LET value(f) == field_value(form.fields[f], form.data, f)
             errs(f) == field_errors(form.fields[f], value(f))
             failed == {f \in DOMAIN form.fields : errs(f) # {}}
         IN  [form EXCEPT
                 !._errors = Some([f \in failed |-> errs(f)]),
                 !.cleaned_data =
                     Some([f \in (DOMAIN form.fields) \ failed |-> value(f)])]

\* the BaseForm.errors property: cleans the form on first use
errors(form) ==
    IF form._errors = None THEN The(full_clean(form)._errors)
    ELSE The(form._errors)

\* BaseForm.is_valid
is_valid(form) == form.is_bound /\ DOMAIN errors(form) = {}

(***************************************************************************)
(* Requests.  A request has a path, a method, its query parameters (GET)   *)
(* and the form-encoded fields of its body.                                *)
(***************************************************************************)
\* HttpRequest.POST: the body's fields for a POST, empty for other methods
POST(req) == IF req.method = "POST" THEN req.body ELSE EmptyDict

(***************************************************************************)
(* example_project/urls.py                                                 *)
(***************************************************************************)
urlpatterns ==
    << [route |-> <<>>, view |-> "index", name |-> "index"],
       [route |-> <<"f", "o", "r", "m", "/">>,
        view |-> "form_example", name |-> "form"],
       [route |-> <<"c", "o", "m", "p", "o", "n", "e", "n", "t", "s", "/">>,
        view |-> "components_example", name |-> "components"],
       [route |-> <<"p", "l", "u", "g", "i", "n", "s", "/">>,
        view |-> "plugins_example", name |-> "plugins"] >>

\* a route matched as a prefix of the remaining path (no end anchor)
route_match_prefix(route, path) ==
    Len(route) <= Len(path) /\ SubSeq(path, 1, Len(route)) = route

\* path(route, view): the route has no converters and is an endpoint, so it
\* matches the remaining path when both are the same string
route_match(route, path) == route = path

\* URL resolution over a list of patterns: the leading "/" is consumed, the
\* patterns are tried in order and the first that matches gives the view;
\* None when no pattern matches (Resolver404)
resolve_in(patterns, path_info) ==
    IF path_info = <<>> \/ Head(path_info) # "/" THEN None
    ELSE LET hits == {i \in 1..Len(patterns) :
                         route_match(patterns[i].route, Tail(path_info))}
         IN  IF hits = {} THEN None
             ELSE Some(patterns[CHOOSE i \in hits : \A j \in hits : i <= j].view)

resolve(path_info) == resolve_in(urlpatterns, path_info)

(***************************************************************************)
(* example_app/views.py                                                    *)
(***************************************************************************)
\* django.shortcuts.render(request, template_name, context): a response
\* with the default status
render(template_name, context) ==
    [template |-> template_name, context |-> context, status_code |-> 200]

\* the notifications listed in the other order
index_context_swapped ==
    [user |-> [name |-> "John Doe", email |-> "john@example.com",
               role |-> "admin"],
     notifications |->
        << [id |-> 2, text |-> "You have 3 new messages", type |-> "success"],
           [id |-> 1, text |-> "Welcome to rnxJS!", type |-> "info"] >>]

index_context ==
    [user |-> [name |-> "John Doe", email |-> "john@example.com",
               role |-> "admin"],
     notifications |->
        << [id |-> 1, text |-> "Welcome to rnxJS!", type |-> "info"],
           [id |-> 2, text |-> "You have 3 new messages", type |-> "success"] >>]

\* an index view that consults the request: no notifications on a POST
index_view_by_method(req) ==
    render("index.html",
           IF req.method = "POST"
           THEN [index_context EXCEPT !.notifications = <<>>]
           ELSE index_context)

index_view(req) == render("index.html", index_context)

\* a row added by copying Bob's without giving it a new id
components_context_copied_row ==
    [users |->
        << [id |-> 1, name |-> "Alice", email |-> "alice@example.com",
            status |-> "active"],
           [id |-> 2, name |-> "Bob", email |-> "bob@example.com",
            status |-> "inactive"],
           [id |-> 2, name |-> "Charlie", email |-> "charlie@example.com",
            status |-> "active"] >>,
     columns |->
        << [key |-> "id", label |-> "ID"],
           [key |-> "name", label |-> "Name"],
           [key |-> "email", label |-> "Email"],
           [key |-> "status", label |-> "Status"] >>]

components_context ==
    [users |->
        << [id |-> 1, name |-> "Alice", email |-> "alice@example.com",
            status |-> "active"],
           [id |-> 2, name |-> "Bob", email |-> "bob@example.com",
            status |-> "inactive"],
           [id |-> 3, name |-> "Charlie", email |-> "charlie@example.com",
            status |-> "active"] >>,
     columns |->
        << [key |-> "id", label |-> "ID"],
           [key |-> "name", label |-> "Name"],
           [key |-> "email", label |-> "Email"],
           [key |-> "status", label |-> "Status"] >>]

components_example_view(req) == render("components.html", components_context)

\* the /about entry left out
plugins_context_no_about ==
    [routes |-> ("/" :> "Home" @@ "/users" :> "Users"
                 @@ "/settings" :> "Settings")]

plugins_context ==
    [routes |-> ("/" :> "Home" @@ "/users" :> "Users"
                 @@ "/settings" :> "Settings" @@ "/about" :> "About")]

plugins_example_view(req) == render("plugins.html", plugins_context)

\* form_example run from its first line to its return
form_example_view(req, fields) ==
    IF req.method = "POST"
    THEN LET form == full_clean(NewContactForm(Some(POST(req)), fields)) IN
         IF is_valid(form)
         THEN render("form_success.html",
                     [name |-> The(form.cleaned_data).name])
         ELSE render("form.html", [form |-> form])
    ELSE render("form.html", [form |-> NewContactForm(None, fields)])

\* the response the framework gives when no pattern matches
not_found == [template |-> "404.html", context |-> EmptyDict, status_code |-> 404]

(***************************************************************************)
(* The requests the model submits.                                         *)
(***************************************************************************)
Str_Ada == <<"A", "d", "a">>
Str_ada_at_example_com ==
    <<"a", "d", "a", "@", "e", "x", "a", "m", "p", "l", "e", ".", "c", "o", "m">>
Str_not_an_email ==
    <<"n", "o", "t", "-", "a", "n", "-", "e", "m", "a", "i", "l">>
Str_hi == <<"h", "i">>
Str_on == <<"o", "n">>

\* v with up to MaxPad blanks on each side
Padded(v) ==
    {Rep(" ", l) \o v \o Rep(" ", r) : l \in 0..MaxPad, r \in 0..MaxPad}

NameLens == (0..MaxShort) \cup ((max_length - 1)..(max_length + MaxOver))

NameValues ==
    UNION {Padded(Rep("a", n)) : n \in NameLens}
    \cup {Str_Ada, <<"a", NUL, "b">>}

EmailValues ==
    Padded(Str_ada_at_example_com) \cup Padded(<<>>)
    \cup {Str_not_an_email,
          <<"a", "@", "b">>,
          <<"a", "@", "b", ".", "c">>,
          <<"a", ".", "@", "b", ".", "c", "o">>,
          <<"a", "@", "b", "@", "c", ".", "d", "e">>,
          <<"a", "@", "-", "b", ".", "c", "o">>,
          <<"a", "+", "b", "@", "c", "-", "d", ".", "c", "o">>}

MessageValues == Padded(Str_hi) \cup Padded(<<>>) \cup {<<"h", NUL>>}

SubscribeValues == {Str_on, <<"F", "a", "l", "s", "e">>, <<"0">>, <<>>}

Opt(values) == {None} \cup {Some(v) : v \in values}

\* the dict of the keys that were given a value
DictOf(given) ==
    [k \in {f \in DOMAIN given : given[f] # None} |-> The(given[k])]

FormBodies ==
    {DictOf([name |-> n, email |-> e, message |-> m, subscribe |-> s]) :
        n \in Opt(NameValues), e \in Opt(EmailValues),
        m \in Opt(MessageValues), s \in Opt(SubscribeValues)}

Path_root == <<"/">>
Path_form == <<"/", "f", "o", "r", "m", "/">>
Path_components ==
    <<"/", "c", "o", "m", "p", "o", "n", "e", "n", "t", "s", "/">>
Path_plugins == <<"/", "p", "l", "u", "g", "i", "n", "s", "/">>

Paths ==
    {Path_root, Path_form, Path_components, Path_plugins,
     <<"/", "f", "o", "r", "m">>, <<"/", "f", "o", "r", "m", "/", "x">>}

Methods == {"GET", "POST", "HEAD", "PUT"}

ValidBody ==
    [name |-> Str_Ada, email |-> Str_ada_at_example_com, message |-> Str_hi]

InvalidBody == [name |-> <<>>, email |-> Str_not_an_email, message |-> <<>>]

\* a field ContactForm does not declare
WithToken(b) == [k \in DOMAIN b \cup {"csrfmiddlewaretoken"} |->
                    IF k \in DOMAIN b THEN b[k] ELSE <<"x">>]

SmallBodies ==
    {EmptyDict, ValidBody, InvalidBody, WithToken(ValidBody),
     WithToken(InvalidBody), [ValidBody EXCEPT !.name = <<"B">>]}

Queries == {EmptyDict, [name |-> Str_Ada], [page |-> <<"2">>]}

Request(path, method, query, body) ==
    [path |-> path, method |-> method, GET |-> query, body |-> body]

\* every field combination, submitted to the form
FormPosts == {Request(Path_form, "POST", EmptyDict, b) : b \in FormBodies}

\* every path and method, with a few bodies and query strings
OtherRequests ==
    {Request(p, m, q, b) :
        p \in Paths, m \in Methods, q \in Queries, b \in SmallBodies}

Requests == FormPosts \cup OtherRequests

\* the requests of the concurrent specification
ConcRequests ==
    {Request(Path_form, "POST", EmptyDict, b) : b \in SmallBodies}
    \cup {Request(Path_form, "GET", q, EmptyDict) : q \in Queries}
    \cup {Request(Path_form, "PUT", EmptyDict, ValidBody)}
    \cup {Request(p, m, q, b) :
            p \in {Path_root, Path_components, Path_plugins},
            m \in {"GET", "POST"},
            q \in {EmptyDict, [page |-> <<"2">>]},
            b \in {EmptyDict}}
    \cup {Request(<<"/", "f", "o", "r", "m">>, "GET", EmptyDict, EmptyDict)}

(***************************************************************************)
(* State.                                                                  *)
(***************************************************************************)
Workers == 1..NumWorkers

VARIABLES
    base_fields,  \* ContactForm.base_fields, the class's declared fields
    pc,           \* pc[w]: where worker w is in serving its request
    request,      \* request[w]: the request worker w serves, or None
    forms,        \* forms[s]: the value of a "form" variable, or None
    response      \* response[w]: what the view returned, or None

vars == <<base_fields, pc, request, forms, response>>

\* "form" kept in one module-level variable that all calls share
FormSlotShared(w) == 1

\* form_example's "form" is a local variable: one per call
FormSlot(w) == w

req(w) == The(request[w])

form(w) == The(forms[FormSlot(w)])

Init ==
    /\ base_fields = ContactForm_base_fields
    /\ pc = [w \in Workers |-> "idle"]
    /\ request = [w \in Workers |-> None]
    /\ forms = [w \in Workers |-> None]
    /\ response = [w \in Workers |-> None]

\* a request arrives and is handed to a worker
Receive(w, reqs) ==
    /\ pc[w] = "idle"
    /\ \E r \in reqs : request' = [request EXCEPT ![w] = Some(r)]
    /\ pc' = [pc EXCEPT ![w] = "resolve"]
    /\ UNCHANGED <<base_fields, forms, response>>

Return(w, resp) ==
    /\ response' = [response EXCEPT ![w] = Some(resp)]
    /\ pc' = [pc EXCEPT ![w] = "done"]

Resolved(w, view) == pc[w] = "resolve" /\ resolve(req(w).path) = Some(view)

\* no pattern matches the path
NotFound(w) ==
    /\ pc[w] = "resolve"
    /\ resolve(req(w).path) = None
    /\ Return(w, not_found)
    /\ UNCHANGED <<base_fields, request, forms>>

index(w) ==
    /\ Resolved(w, "index")
    /\ Return(w, index_view(req(w)))
    /\ UNCHANGED <<base_fields, request, forms>>

components_example(w) ==
    /\ Resolved(w, "components_example")
    /\ Return(w, components_example_view(req(w)))
    /\ UNCHANGED <<base_fields, request, forms>>

plugins_example(w) ==
    /\ Resolved(w, "plugins_example")
    /\ Return(w, plugins_example_view(req(w)))
    /\ UNCHANGED <<base_fields, request, forms>>

\* form = ContactForm(request.POST)
form_example_post(w) ==
    /\ Resolved(w, "form_example")
    /\ req(w).method = "POST"
    /\ forms' = [forms EXCEPT ![FormSlot(w)] =
                    Some(NewContactForm(Some(POST(req(w))), base_fields))]
    /\ pc' = [pc EXCEPT ![w] = "is_valid"]
    /\ UNCHANGED <<base_fields, request, response>>

\* the else branch binding the query parameters: ContactForm(request.GET)
form_example_else_bound(w) ==
    /\ Resolved(w, "form_example")
    /\ req(w).method # "POST"
    /\ forms' = [forms EXCEPT ![FormSlot(w)] =
                    Some(NewContactForm(Some(req(w).GET), base_fields))]
    /\ pc' = [pc EXCEPT ![w] = "render_form"]
    /\ UNCHANGED <<base_fields, request, response>>

\* form = ContactForm()
form_example_else(w) ==
    /\ Resolved(w, "form_example")
    /\ req(w).method # "POST"
    /\ forms' = [forms EXCEPT ![FormSlot(w)] =
                    Some(NewContactForm(None, base_fields))]
    /\ pc' = [pc EXCEPT ![w] = "render_form"]
    /\ UNCHANGED <<base_fields, request, response>>

\* if form.is_valid(): the call cleans the form
form_example_is_valid(w) ==
    /\ pc[w] = "is_valid"
    /\ forms[FormSlot(w)] # None
    /\ forms' = [forms EXCEPT ![FormSlot(w)] = Some(full_clean(form(w)))]
    /\ pc' = [pc EXCEPT ![w] =
                 IF is_valid(form(w)) THEN "render_success" ELSE "render_form"]
    /\ UNCHANGED <<base_fields, request, response>>

\* the success page given the submitted name instead of the cleaned one:
\* {'name': request.POST['name']}
form_example_success_raw(w) ==
    /\ pc[w] = "render_success"
    /\ forms[FormSlot(w)] # None
    /\ "name" \in DOMAIN form(w).data
    /\ Return(w, render("form_success.html", [name |-> form(w).data.name]))
    /\ UNCHANGED <<base_fields, request, forms>>

\* return render(request, 'form_success.html', {'name': ...})
form_example_success(w) ==
    /\ pc[w] = "render_success"
    /\ forms[FormSlot(w)] # None
    /\ form(w).cleaned_data # None
    /\ "name" \in DOMAIN The(form(w).cleaned_data)
    /\ Return(w, render("form_success.html",
                        [name |-> The(form(w).cleaned_data).name]))
    /\ UNCHANGED <<base_fields, request, forms>>

\* the form page given a new form instead of the validated one:
\* {'form': ContactForm()}
form_example_render_fresh(w) ==
    /\ pc[w] = "render_form"
    /\ forms[FormSlot(w)] # None
    /\ Return(w, render("form.html",
                        [form |-> NewContactForm(None, base_fields)]))
    /\ UNCHANGED <<base_fields, request, forms>>

\* return render(request, 'form.html', {'form': form})
form_example_render(w) ==
    /\ pc[w] = "render_form"
    /\ forms[FormSlot(w)] # None
    /\ Return(w, render("form.html", [form |-> form(w)]))
    /\ UNCHANGED <<base_fields, request, forms>>

\* the response has been sent: the request and its objects are dropped
Respond(w) ==
    /\ pc[w] = "done"
    /\ pc' = [pc EXCEPT ![w] = "idle"]
    /\ request' = [request EXCEPT ![w] = None]
    /\ response' = [response EXCEPT ![w] = None]
    /\ forms' = [forms EXCEPT ![FormSlot(w)] = None]
    /\ UNCHANGED base_fields

Serve(w) ==
    \/ NotFound(w)
    \/ index(w)
    \/ components_example(w)
    \/ plugins_example(w)
    \/ form_example_post(w)
    \/ form_example_else(w)
    \/ form_example_is_valid(w)
    \/ form_example_success(w)
    \/ form_example_render(w)
    \/ Respond(w)

\* one request at a time, every input
Next == Receive(1, Requests) \/ Serve(1)

Spec == Init /\ [][Next]_vars

\* NumWorkers requests at a time, their steps interleaved
NextConc == \E w \in Workers : Receive(w, ConcRequests) \/ Serve(w)

SpecConc == Init /\ [][NextConc]_vars

(***************************************************************************)
(* Properties.                                                             *)
(***************************************************************************)
Done(w) == pc[w] = "done"

resp(w) == The(response[w])

\* worker w has returned from the named view
Returned(w, view) == Done(w) /\ resolve(req(w).path) = Some(view)

\* the form obtained by binding a data mapping to the declared fields and
\* cleaning it
Cleaned(data) == full_clean(NewContactForm(Some(data), ContactForm_base_fields))

PassesValidation(data) == is_valid(Cleaned(data))

Submitted(data, key) == IF key \in DOMAIN data THEN data[key] ELSE <<>>

HasNUL(s) == \E i \in 1..Len(s) : s[i] = NUL

\* C1: form_example, on a POST whose fields pass validation, renders
\* form_success.html with a context whose only key is name, holding the
\* cleaned (stripped) name; for the submission name="Ada",
\* email="ada@example.com", message="hi" the context is exactly {name: "Ada"}.
C1_SuccessCarriesOnlyCleanedName ==
    \A w \in Workers :
        (Returned(w, "form_example") /\ req(w).method = "POST"
            /\ PassesValidation(req(w).body))
        => /\ resp(w).template = "form_success.html"
           /\ DOMAIN resp(w).context = {"name"}
           /\ resp(w).context.name = strip(req(w).body.name)
           /\ resp(w).context.name = The(Cleaned(req(w).body).cleaned_data).name
           /\ (req(w).body = ValidBody => resp(w).context = [name |-> Str_Ada])

\* C1 witness: a valid submission whose name carries surrounding blanks has
\* been answered with the success page
C1_Witness ==
    /\ Returned(1, "form_example") /\ req(1).method = "POST"
    /\ PassesValidation(req(1).body)
    /\ req(1).body.name = <<" ", "a", " ">>
    /\ resp(1).template = "form_success.html"

\* a declared field whose submitted value does not pass its checks
FieldFails(data, f) ==
    field_errors(ContactForm_base_fields[f],
                 field_value(ContactForm_base_fields[f], data, f)) # {}

\* C2: form_example, on a POST whose fields fail validation, returns a
\* normal response that is never form_success.html: it renders form.html
\* with the bound form that was validated, which has an error for every
\* failing field; name="", email="not-an-email", message="" gives errors on
\* name, email and message.  Every step of the view finds the form, and the
\* success branch finds cleaned_data['name'], so none of them raises.
C2_InvalidRerendersSameFormWithErrors ==
    \A w \in Workers :
        /\ (pc[w] \in {"is_valid", "render_form", "render_success"}
                => forms[FormSlot(w)] # None)
        /\ (pc[w] = "render_success"
                => /\ form(w).cleaned_data # None
                   /\ "name" \in DOMAIN The(form(w).cleaned_data))
        /\ (Returned(w, "form_example") /\ req(w).method = "POST"
                /\ ~PassesValidation(req(w).body))
           => /\ resp(w).status_code = 200
              /\ resp(w).template = "form.html"
              /\ DOMAIN resp(w).context = {"form"}
              /\ resp(w).context.form = form(w)
              /\ LET f == resp(w).context.form IN
                 /\ f.is_bound
                 /\ f.data = req(w).body
                 /\ f._errors # None
                 /\ \A k \in DOMAIN ContactForm_base_fields :
                        FieldFails(req(w).body, k) <=> k \in DOMAIN errors(f)
                 /\ (req(w).body = InvalidBody
                        => DOMAIN errors(f) = {"name", "email", "message"})

\* C2 witness: the submission name="", email="not-an-email", message="" has
\* been answered
C2_Witness ==
    /\ Returned(1, "form_example") /\ req(1).method = "POST"
    /\ req(1).body = InvalidBody
    /\ resp(1).template = "form.html"

\* C3: form_example, on a request whose method is not POST, validates
\* nothing and renders form.html with a new ContactForm that is unbound, has
\* no data and no errors, whatever the query string and body hold.
C3_NonPostShowsEmptyForm ==
    \A w \in Workers :
        /\ (pc[w] \in {"is_valid", "render_success"} => req(w).method = "POST")
        /\ (Returned(w, "form_example") /\ req(w).method # "POST")
           => /\ resp(w).template = "form.html"
              /\ DOMAIN resp(w).context = {"form"}
              /\ LET f == resp(w).context.form IN
                 /\ ~f.is_bound
                 /\ f.data = EmptyDict
                 /\ f._errors = None
                 /\ f.cleaned_data = None
                 /\ DOMAIN errors(f) = {}

\* C3 witness: a PUT that carries a valid body and a query string naming a
\* form field has been answered
C3_Witness ==
    /\ Returned(1, "form_example")
    /\ req(1).method = "PUT"
    /\ req(1).body = ValidBody
    /\ req(1).GET = [name |-> Str_Ada]

Accepted(w) == resp(w).template = "form_success.html"

FormPostReturned(w) == Returned(w, "form_example") /\ req(w).method = "POST"

\* C4 as stated: a submission is accepted exactly when name is present and
\* at most 100 characters long, email is present and has a valid e-mail
\* shape, and message is present.
C4_AcceptedIffAsStated ==
    \A w \in Workers :
        FormPostReturned(w) =>
            LET data == req(w).body IN
            Accepted(w) <=>
                /\ Submitted(data, "name") # <<>>
                /\ Len(Submitted(data, "name")) <= max_length
                /\ Submitted(data, "email") # <<>>
                /\ validate_email(Submitted(data, "email"))
                /\ Submitted(data, "message") # <<>>

\* C4 amended: a submission is accepted exactly when name, email and
\* message, each with its surrounding whitespace removed, are non-empty,
\* the name is then at most 100 characters long, the e-mail then has a valid
\* shape, and neither name nor message holds a NUL character; subscribe
\* changes nothing: the submission without it is accepted or refused alike.
C4_AcceptedIffAfterStripping ==
    \A w \in Workers :
        FormPostReturned(w) =>
            LET data == req(w).body
                name == strip(Submitted(data, "name"))
                email == strip(Submitted(data, "email"))
                message == strip(Submitted(data, "message"))
            IN  /\ Accepted(w) <=>
                       /\ name # <<>> /\ Len(name) <= max_length /\ ~HasNUL(name)
                       /\ email # <<>> /\ validate_email(email)
                       /\ message # <<>> /\ ~HasNUL(message)
                /\ Accepted(w) <=>
                       PassesValidation(
                           [k \in (DOMAIN data) \ {"subscribe"} |-> data[k]])

\* C4 witness: a name of max_length characters followed by a blank, more
\* than max_length characters as submitted, has been accepted
C4_Witness ==
    /\ FormPostReturned(1)
    /\ "name" \in DOMAIN req(1).body
    /\ Len(req(1).body.name) > max_length
    /\ "subscribe" \in DOMAIN req(1).body
    /\ Accepted(1)

FourPaths == {Path_root, Path_form, Path_components, Path_plugins}

ExpectedView ==
    [p \in FourPaths |->
        CASE p = Path_root -> "index"
          [] p = Path_form -> "form_example"
          [] p = Path_components -> "components_example"
          [] p = Path_plugins -> "plugins_example"]

ExpectedTemplate ==
    [index |-> "index.html", form_example |-> "form.html",
     components_example |-> "components.html",
     plugins_example |-> "plugins.html"]

\* the patterns in another order
Reordered(perm) == [i \in 1..Len(urlpatterns) |-> urlpatterns[perm[i]]]

\* C5: each of /, /form/, /components/, /plugins/ is matched by exactly one
\* entry of urlpatterns, that of index, form_example, components_example
\* and plugins_example; the routes are pairwise distinct, so resolving a
\* request's path gives the same view whatever the order of the entries;
\* a GET to each path returns status 200 from index.html, form.html,
\* components.html and plugins.html.
C5_RoutesBindOneViewEach ==
    /\ \A i, j \in 1..Len(urlpatterns) :
           i # j => urlpatterns[i].route # urlpatterns[j].route
    /\ \A w \in Workers :
           request[w] # None =>
               LET p == req(w).path IN
               /\ \A perm \in Permutations(1..Len(urlpatterns)) :
                      resolve_in(Reordered(perm), p) = resolve(p)
               /\ p \in FourPaths =>
                      /\ Cardinality({i \in 1..Len(urlpatterns) :
                             route_match(urlpatterns[i].route, Tail(p))}) = 1
                      /\ resolve(p) = Some(ExpectedView[p])
                      /\ (Done(w) /\ req(w).method = "GET")
                         => /\ resp(w).status_code = 200
                            /\ resp(w).template =
                                   ExpectedTemplate[ExpectedView[p]]

\* C5 witness: a GET to /plugins/ has been answered
C5_Witness ==
    /\ Done(1) /\ req(1).path = Path_plugins /\ req(1).method = "GET"
    /\ resp(1).template = "plugins.html"

\* what a request gets when it is the only one ever served: the view that
\* its path resolves to, run from start to end on the declared fields
ServedAlone(r) ==
    LET v == resolve(r.path) IN
    IF v = None THEN not_found
    ELSE CASE The(v) = "index" -> index_view(r)
           [] The(v) = "components_example" -> components_example_view(r)
           [] The(v) = "plugins_example" -> plugins_example_view(r)
           [] The(v) = "form_example" ->
                  form_example_view(r, ContactForm_base_fields)

\* C6: however the steps of concurrent requests interleave, the response a
\* request gets is the one it would get if it were the only request ever
\* served; a worker between requests holds no request, form or response;
\* ContactForm's declared fields are never modified.
C6_RequestsAreIndependent ==
    /\ base_fields = ContactForm_base_fields
    /\ \A w \in Workers :
        /\ Done(w) => resp(w) = ServedAlone(req(w))
        /\ pc[w] = "idle" =>
               /\ request[w] = None
               /\ forms[FormSlot(w)] = None
               /\ response[w] = None

\* C6 witness: an invalid submission has been answered while a valid one,
\* bound after it, is still waiting to be validated
C6_Witness ==
    /\ Done(1) /\ req(1).path = Path_form /\ req(1).body = InvalidBody
    /\ resp(1).template = "form.html"
    /\ pc[2] = "is_valid" /\ req(2).body = ValidBody

\* C7: the components view returns 3 rows with pairwise distinct integer
\* ids and a status of active or inactive, and 4 columns whose keys are id,
\* name, email, status in that order, each a field of every row.
C7_ComponentsContextShape ==
    \A w \in Workers :
        Returned(w, "components_example") =>
            LET users == resp(w).context.users
                columns == resp(w).context.columns
            IN  /\ resp(w).template = "components.html"
                /\ DOMAIN resp(w).context = {"users", "columns"}
                /\ Len(users) = 3
                /\ \A i \in 1..Len(users) :
                       /\ DOMAIN users[i] = {"id", "name", "email", "status"}
                       /\ users[i].id \in Int
                       /\ users[i].status \in {"active", "inactive"}
                       /\ \A j \in 1..Len(users) :
                              i # j => users[i].id # users[j].id
                /\ Len(columns) = 4
                /\ [i \in 1..Len(columns) |-> columns[i].key]
                       = <<"id", "name", "email", "status">>
                /\ \A i \in 1..Len(columns) :
                       /\ DOMAIN columns[i] = {"key", "label"}
                       /\ \A j \in 1..Len(users) :
                              columns[i].key \in DOMAIN users[j]

\* C7 witness: the components view has answered a POST
C7_Witness ==
    /\ Returned(1, "components_example") /\ req(1).method = "POST"
    /\ Len(resp(1).context.users) = 3

\* C8: the index view returns a user with exactly the keys name, email and
\* role, and exactly two notifications, with ids 1 then 2 and types info
\* then success.
C8_IndexContextShape ==
    \A w \in Workers :
        Returned(w, "index") =>
            LET user == resp(w).context.user
                notes == resp(w).context.notifications
            IN  /\ resp(w).template = "index.html"
                /\ DOMAIN resp(w).context = {"user", "notifications"}
                /\ DOMAIN user = {"name", "email", "role"}
                /\ Len(notes) = 2
                /\ \A i \in 1..Len(notes) :
                       DOMAIN notes[i] = {"id", "text", "type"}
                /\ \A i, j \in 1..Len(notes) :
                       i # j => notes[i].id # notes[j].id
                /\ [i \in 1..Len(notes) |-> notes[i].id] = <<1, 2>>
                /\ [i \in 1..Len(notes) |-> notes[i].type]
                       = <<"info", "success">>

\* C8 witness: the index view has answered a GET with a query string
C8_Witness ==
    /\ Returned(1, "index") /\ req(1).method = "GET"
    /\ req(1).GET # EmptyDict
    /\ Len(resp(1).context.notifications) = 2

\* C9: the plugins view returns a routes mapping of exactly 4 entries, with
\* the keys /, /users, /settings and /about, each mapped to its display
\* name.
C9_PluginsRoutesShape ==
    \A w \in Workers :
        Returned(w, "plugins_example") =>
            LET routes == resp(w).context.routes IN
            /\ resp(w).template = "plugins.html"
            /\ DOMAIN resp(w).context = {"routes"}
            /\ Cardinality(DOMAIN routes) = 4
            /\ DOMAIN routes = {"/", "/users", "/settings", "/about"}
            /\ \A k \in DOMAIN routes : routes[k] \in STRING
            /\ routes["/"] = "Home"
            /\ routes["/users"] = "Users"
            /\ routes["/settings"] = "Settings"
            /\ routes["/about"] = "About"

\* C9 witness: the plugins view has answered a request
C9_Witness ==
    /\ Returned(1, "plugins_example")
    /\ Cardinality(DOMAIN resp(1).context.routes) = 4

StaticViews == {"index", "components_example", "plugins_example"}

\* the declared fields of a POST's data
FourFields(r) ==
    [k \in (DOMAIN POST(r)) \cap (DOMAIN ContactForm_base_fields) |-> POST(r)[k]]

BothReturned(v, w, view) == v # w /\ Returned(v, view) /\ Returned(w, view)

\* C10 as stated: the index, components and plugins views return the same
\* template and context for any two requests; form_example returns the same
\* for any two requests with the same method and the same four form fields.
C10_DependsOnlyOnMethodAndFourFields ==
    \A v, w \in Workers :
        /\ \A view \in StaticViews :
               BothReturned(v, w, view) => resp(v) = resp(w)
        /\ (BothReturned(v, w, "form_example")
                /\ req(v).method = req(w).method
                /\ FourFields(req(v)) = FourFields(req(w)))
           => resp(v) = resp(w)

\* a response without the data mapping of the form it carries
WithoutFormData(r) ==
    IF "form" \in DOMAIN r.context
    THEN [r EXCEPT !.context.form.data = EmptyDict]
    ELSE r

\* C10 amended: the index, components and plugins views return the same
\* template and context for any two requests; form_example's result depends
\* on the request only through whether the method is POST and, for a POST,
\* through the POST data: the four form fields decide the template, the
\* errors and the cleaned values, and the bound form rendered after a
\* failed validation also carries the whole POST data, undeclared fields
\* included.
C10_DependsOnlyOnPostData ==
    \A v, w \in Workers :
        /\ \A view \in StaticViews :
               BothReturned(v, w, view) => resp(v) = resp(w)
        /\ (BothReturned(v, w, "form_example")
                /\ (req(v).method = "POST" <=> req(w).method = "POST"))
           => /\ POST(req(v)) = POST(req(w)) => resp(v) = resp(w)
              /\ FourFields(req(v)) = FourFields(req(w))
                     => WithoutFormData(resp(v)) = WithoutFormData(resp(w))

\* C10 witness: two failed submissions with the same four fields, one of
\* them with a further field, have both been answered, and the forms they
\* carry differ in their data only
C10_Witness ==
    /\ BothReturned(1, 2, "form_example")
    /\ req(1).body = InvalidBody
    /\ req(2).body = WithToken(InvalidBody)
    /\ resp(1) # resp(2)
    /\ WithoutFormData(resp(1)) = WithoutFormData(resp(2))

====
